---- MODULE Spec2Model ----
(***************************************************************************)
(* Model of the bwm_claude customisations:                                 *)
(*   - overrides/work_order.py : the unreturned-RM guard on Close / Stop   *)
(*     of a Work Order and the one-click return_and_close routine;         *)
(*   - interunit_transfer.py   : the before_submit GL override on Sales    *)
(*     Invoice and Delivery Note.                                          *)
(*                                                                         *)
(* Quantities are integers counted in ticks of 0.0002, so that values      *)
(* finer than the three decimals kept by round(x, 3) exist and no value    *)
(* lies exactly half way between two thousandths.  0.001 is 5 ticks and    *)
(* the tolerance 0.01 is 50 ticks.                                         *)
(*                                                                         *)
(* Python None / SQL NULL is the string Null for text fields and the empty *)
(* set for numeric fields (a numeric field holds {} or {n}).               *)
(***************************************************************************)
EXTENDS Integers, Sequences, FiniteSets, Bags, TLC

VARIABLES
    wo,             \* the Work Order document (status, required_items, warehouses)
    ledger,         \* bag of submitted Stock Entry Detail rows of this Work Order
    stock_entries,  \* reversing Stock Entries persisted by return_and_close
    last,           \* the last whitelisted call: arguments, host calls made, outcome
    doc,            \* the Sales Invoice / Delivery Note being submitted
    accounts,       \* rows of the Account table
    hook            \* the last before_submit hook run and its outcome

vars == <<wo, ledger, stock_entries, last, doc, accounts, hook>>

Null == "<None>"

(***************************************************************************)
(* Bounds of the model.                                                    *)
(***************************************************************************)
MaxLines == 3       \* Stock Entry Detail rows in the ledger before any call
MaxDocs == 2        \* reversing Stock Entries return_and_close may persist
MaxItems == 2       \* item rows on a Sales Invoice / Delivery Note

(***************************************************************************)
(* Numbers of the program.                                                 *)
(***************************************************************************)
TicksPerMilli == 5  \* round(x, 3) keeps thousandths: 0.001 = 5 ticks
Tolerance == 50     \* 0.01

\* round(x, 3): to the nearest thousandth (no tick value is a half-way case).
Round3(x) == ((x + 2) \div TicksPerMilli) * TicksPerMilli

\* Python truthiness of a text value: None and "" are falsy.
Falsy(s) == s = Null \/ s = ""

\* `a or b` on text values.
OrText(a, b) == IF Falsy(a) THEN b ELSE a

\* `q or 0` on a numeric field.
Or0(q) == IF q = {} THEN 0 ELSE CHOOSE n \in q : TRUE

Min(a, b) == IF a <= b THEN a ELSE b

(***************************************************************************)
(* The host tables read by work_order.py.  Every ledger row belongs to a   *)
(* submitted (docstatus = 1) Stock Entry of purpose "Material Transfer for *)
(* Manufacture" of the one Work Order modelled; is_return, item_code,      *)
(* batch_no, s_warehouse, t_warehouse and qty are the columns the queries  *)
(* read.  item_name, stock_uom, cost_center and the rates are carried      *)
(* through unchanged by the code and are left out.                         *)
(***************************************************************************)
WIP == "WIP"
Items == <<"A", "B">>
ItemRank(ic) == CHOOSE i \in 1..Len(Items) : Items[i] = ic
BatchRank(bn) == IF bn = Null THEN 0 ELSE IF bn = "b1" THEN 1 ELSE 2

Line(ret, ic, bn, s, t, q) ==
    [is_return |-> ret, item_code |-> ic, batch_no |-> bn,
     s_warehouse |-> s, t_warehouse |-> t, qty |-> q]

\* Rows the ledger may hold before the first call.
LineUniverse ==
    {Line(0, "A", "b1", "S1", WIP, q) : q \in {52, 100}}
    \cup {Line(0, "A", "b2", "S1", WIP, q) : q \in {100, 5000}}
    \cup {Line(0, "B", Null, "S1", WIP, 5000), Line(0, "B", Null, Null, WIP, 5000),
          Line(0, "B", Null, "S1", "S2", 5000), Line(0, "B", Null, WIP, "S2", 5000)}
    \cup {Line(1, "A", bn, WIP, "S1", 100) : bn \in {"b1", "b2"}}
    \cup {Line(1, "B", Null, WIP, "S1", 100)}

\* SUM(qty) over the rows S of bag B.
RECURSIVE SumQty(_, _)
SumQty(B, S) ==
    IF S = {} THEN 0
    ELSE LET l == CHOOSE x \in S : TRUE
         IN  l.qty * CopiesIn(l, B) + SumQty(B, S \ {l})

\* The host keeps a required item's transferred_qty / returned_qty as the sum
\* of the Work Order's submitted transfer / return rows of that item.
HostRequiredItems(items, B) ==
    [i \in 1..Len(items) |->
        [items[i] EXCEPT
            !.transferred_qty =
                {SumQty(B, {l \in BagToSet(B) :
                            l.is_return = 0 /\ l.item_code = items[i].item_code})},
            !.returned_qty =
                {SumQty(B, {l \in BagToSet(B) :
                            l.is_return = 1 /\ l.item_code = items[i].item_code})}]]

(***************************************************************************)
(* _get_excess_items                                                       *)
(***************************************************************************)
\* Mutant: the returned quantity is not netted out.
ExcessOfNoReturned(item) ==
    Round3(Or0(item.transferred_qty) - Or0(item.consumed_qty))

ExcessOf(item) ==
    Round3(Or0(item.transferred_qty) - Or0(item.consumed_qty) - Or0(item.returned_qty))

ExcessRow(item) ==
    [item_code |-> item.item_code,
     excess_qty |-> ExcessOf(item),
     transferred |-> Or0(item.transferred_qty),
     consumed |-> Or0(item.consumed_qty),
     returned |-> Or0(item.returned_qty),
     source_warehouse |-> item.source_warehouse]

\* Mutants of the excess test: a looser threshold; a threshold that includes 0.01.
IsExcessLoose(item) == ExcessOf(item) > 2 * Tolerance
IsExcessInclusive(item) == ExcessOf(item) >= Tolerance

IsExcess(item) == ExcessOf(item) > Tolerance

RECURSIVE MapExcess(_)
MapExcess(items) ==
    IF items = <<>> THEN <<>>
    ELSE <<ExcessRow(Head(items))>> \o MapExcess(Tail(items))

_get_excess_items(w) == MapExcess(SelectSeq(w.required_items, IsExcess))

(***************************************************************************)
(* The host's native operations (erpnext ... work_order.close_work_order   *)
(* and stop_unstop): both end in Work Order.update_status(status), which   *)
(* stores "Stopped" and "Closed" as given and recomputes any other status. *)
(***************************************************************************)
update_status(status) ==
    IF status \in {"Stopped", "Closed"} THEN status ELSE "In Process"

NativeCall(fn, status) == [fn |-> fn, work_order |-> "WO-1", status |-> status]

NoResult == [status |-> Null, stock_entry |-> 0, total_returned_qty |-> 0, items_count |-> 0]

CallRecord(op, status, checked, outcome, error, native, steps, result, pre) ==
    [op |-> op, status |-> status, checked |-> checked, outcome |-> outcome,
     error |-> error, native |-> native, steps |-> steps, result |-> result,
     pre |-> pre, lineage |-> <<>>]

Pre == [wo |-> wo, ledger |-> ledger, stock_entries |-> stock_entries]

\* _validate_no_unreturned_rm: TRUE when it throws.
_validate_no_unreturned_rm(w) == _get_excess_items(w) # <<>>

Statuses == {"Closed", "Stopped", "Resumed"}

\* The guard of close_work_order_with_rm_check: is the check run for `status`?
CloseChecks(status) == status = "Closed"

\* The guard of stop_unstop_with_rm_check.
StopChecks(status) == status = "Stopped"

GuardedCall(op, fn, checks, status) ==
    IF checks /\ _validate_no_unreturned_rm(wo)
    THEN /\ last' = CallRecord(op, status, TRUE, "error", "unreturned_rm",
                               <<>>, <<>>, NoResult, Pre)
         /\ UNCHANGED wo
    ELSE /\ wo' = [wo EXCEPT !.status = update_status(status)]
         /\ last' = CallRecord(op, status, checks, "ok", "",
                               <<NativeCall(fn, status)>>, <<>>,
                               [NoResult EXCEPT !.status = update_status(status)], Pre)

close_work_order_with_rm_check(status) ==
    /\ GuardedCall("close_work_order_with_rm_check", "close_work_order",
                   CloseChecks(status), status)
    /\ UNCHANGED <<ledger, stock_entries, doc, accounts, hook>>

stop_unstop_with_rm_check(status) ==
    /\ GuardedCall("stop_unstop_with_rm_check", "stop_unstop",
                   StopChecks(status), status)
    /\ UNCHANGED <<ledger, stock_entries, doc, accounts, hook>>

(***************************************************************************)
(* return_and_close: the two lineage queries.                              *)
(***************************************************************************)
\* original_batches, before ORDER BY: one row per (item_code, batch_no,
\* s_warehouse) group of the transfer rows whose t_warehouse is the WIP
\* warehouse, with issued_qty = SUM(qty).
OriginalBatchRows(B, wip) ==
    LET rows == {l \in BagToSet(B) : l.is_return = 0 /\ l.t_warehouse = wip}
    IN  {[item_code |-> l.item_code, batch_no |-> l.batch_no,
          s_warehouse |-> l.s_warehouse,
          issued_qty |->
              SumQty(B, {m \in rows : /\ m.item_code = l.item_code
                                       /\ m.batch_no = l.batch_no
                                       /\ m.s_warehouse = l.s_warehouse})] : l \in rows}

\* Mutant: the batches of an item come in descending order.
LineageLeqDescending(x, y) ==
    \/ ItemRank(x.item_code) < ItemRank(y.item_code)
    \/ /\ x.item_code = y.item_code
       /\ BatchRank(x.batch_no) >= BatchRank(y.batch_no)

\* ORDER BY sed.item_code, sed.batch_no (NULL first).
LineageLeq(x, y) ==
    \/ ItemRank(x.item_code) < ItemRank(y.item_code)
    \/ /\ x.item_code = y.item_code
       /\ BatchRank(x.batch_no) <= BatchRank(y.batch_no)

\* Every order the query may return its rows in: groups that agree on
\* item_code and batch_no (they differ in s_warehouse) come in either order.
RECURSIVE OrderedBy(_)
OrderedBy(S) ==
    IF S = {} THEN {<<>>}
    ELSE UNION {{<<r>> \o t : t \in OrderedBy(S \ {r})} :
                    r \in {x \in S : \A y \in S : LineageLeq(x, y)}}

original_batches(B, wip) == OrderedBy(OriginalBatchRows(B, wip))

\* already_returned: one row per (item_code, batch_no) group of the return
\* rows whose s_warehouse is the WIP warehouse.
already_returned(B, wip) ==
    LET rows == {l \in BagToSet(B) : l.is_return = 1 /\ l.s_warehouse = wip}
    IN  {[item_code |-> l.item_code, batch_no |-> l.batch_no,
          returned_qty |->
              SumQty(B, {m \in rows : /\ m.item_code = l.item_code
                                       /\ m.batch_no = l.batch_no})] : l \in rows}

RECURSIVE SumReturned(_)
SumReturned(R) ==
    IF R = {} THEN 0
    ELSE LET r == CHOOSE x \in R : TRUE
         IN  r.returned_qty + SumReturned(R \ {r})

\* returned_map.get((ic, bn), 0), the map being keyed by (item_code, batch_no or "").
returned_map_get(R, ic, bn) ==
    SumReturned({r \in R : r.item_code = ic /\ OrText(r.batch_no, "") = bn})

\* available = round(issued - already_ret, 3) of one original_batches row.
Available(ob, R) ==
    Round3(ob.issued_qty - returned_map_get(R, ob.item_code, OrText(ob.batch_no, "")))

KeepsBatch(ob, R) == Available(ob, R) > Tolerance

RECURSIVE MapBatches(_, _)
MapBatches(obs, R) ==
    IF obs = <<>> THEN <<>>
    ELSE <<[batch_no |-> Head(obs).batch_no,
            s_warehouse_orig |-> Head(obs).s_warehouse,
            available_qty |-> Available(Head(obs), R)]>> \o MapBatches(Tail(obs), R)

\* batch_map.get(ic, []): the rows of item ic, in query order, that keep a
\* remainder above the tolerance.
batch_map_get(obs, R, ic) ==
    MapBatches(SelectSeq(obs, LAMBDA ob : ob.item_code = ic /\ KeepsBatch(ob, R)), R)

(***************************************************************************)
(* return_and_close: the rows of the reversing Stock Entry.                *)
(***************************************************************************)
\* Mutant: a batch is always returned whole.
ReturnQtyWhole(remaining, b) == b.available_qty

ReturnQty(remaining, b) == Min(remaining, b.available_qty)

StopsAllocating(remaining) == remaining <= Tolerance

\* The loop over the batches of one item.
RECURSIVE AllocateBatches(_, _, _, _, _)
AllocateBatches(ic, batches, remaining, target_wh, wip) ==
    IF batches = <<>> \/ StopsAllocating(remaining) THEN <<>>
    ELSE LET b == Head(batches)
             return_qty == ReturnQty(remaining, b)
         IN  <<[item_code |-> ic,
                qty |-> Round3(return_qty),
                s_warehouse |-> wip,
                t_warehouse |-> OrText(b.s_warehouse_orig, target_wh),
                batch_no |-> IF Falsy(b.batch_no) THEN Null ELSE b.batch_no]>>
             \o AllocateBatches(ic, Tail(batches), Round3(remaining - return_qty),
                                target_wh, wip)

\* The rows the fallback query (SELECT DISTINCT s_warehouse ... LIMIT 1) can
\* choose from for item ic.
FallbackWarehouses(B, ic, wip) ==
    {l.s_warehouse : l \in {m \in BagToSet(B) :
        /\ m.is_return = 0
        /\ m.item_code = ic
        /\ m.s_warehouse # Null
        /\ m.s_warehouse # wip}}

\* What the fallback query returns for item ic: one of its rows, or nothing.
FallbackResults(B, ic, wip) ==
    IF FallbackWarehouses(B, ic, wip) = {} THEN {Null} ELSE FallbackWarehouses(B, ic, wip)

\* Mutant: a default warehouse instead of no warehouse.
FallbackTargetDefault(target_wh, orig) ==
    IF ~Falsy(target_wh) THEN target_wh ELSE IF orig # Null THEN orig ELSE "Stores"

\* target_wh of an item without batches, given the fallback query's answer.
FallbackTarget(target_wh, orig) ==
    IF Falsy(target_wh) /\ orig # Null THEN orig ELSE target_wh

\* The loop over excess_items: the rows appended, or the item at which
\* "Cannot determine source warehouse" is thrown.
RECURSIVE BuildRows(_, _, _, _, _)
BuildRows(excess_items, obs, R, w, pick) ==
    IF excess_items = <<>> THEN [thrown |-> FALSE, rows |-> <<>>]
    ELSE LET item == Head(excess_items)
             batches == batch_map_get(obs, R, item.item_code)
             target_wh == OrText(item.source_warehouse, w.source_warehouse)
             fallback_wh == FallbackTarget(target_wh, pick[item.item_code])
             rest == BuildRows(Tail(excess_items), obs, R, w, pick)
         IN  IF batches # <<>>
             THEN [rest EXCEPT !.rows =
                      AllocateBatches(item.item_code, batches, item.excess_qty,
                                      target_wh, w.wip_warehouse) \o @]
             ELSE IF Falsy(fallback_wh)
             THEN [thrown |-> TRUE, rows |-> <<>>]
             ELSE [rest EXCEPT !.rows =
                      <<[item_code |-> item.item_code,
                         qty |-> item.excess_qty,
                         s_warehouse |-> w.wip_warehouse,
                         t_warehouse |-> fallback_wh,
                         batch_no |-> Null]>> \o @]

RECURSIVE SumExcess(_)
SumExcess(excess_items) ==
    IF excess_items = <<>> THEN 0
    ELSE Head(excess_items).excess_qty + SumExcess(Tail(excess_items))

\* Submitting the reversing Stock Entry posts its rows as return rows.
RECURSIVE PostRows(_, _)
PostRows(B, rows) ==
    IF rows = <<>> THEN B
    ELSE PostRows(B (+) SetToBag({Line(1, Head(rows).item_code, Head(rows).batch_no,
                                        Head(rows).s_warehouse, Head(rows).t_warehouse,
                                        Head(rows).qty)}),
                  Tail(rows))

(***************************************************************************)
(* return_and_close.  host says whether se.insert() and se.submit() go     *)
(* through; a failed request is rolled back by the host.                   *)
(***************************************************************************)
ReturnRecord(outcome, error, native, steps, result, obs) ==
    [CallRecord("return_and_close", Null, FALSE, outcome, error, native, steps,
                result, Pre) EXCEPT !.lineage = obs]

CloseDirectly ==
    /\ wo' = [wo EXCEPT !.status = update_status("Closed")]
    /\ last' = ReturnRecord("ok", "", <<NativeCall("close_work_order", "Closed")>>,
                            <<"close_work_order">>,
                            [NoResult EXCEPT !.status = "closed"], <<>>)
    /\ UNCHANGED <<ledger, stock_entries>>

\* Mutant: the work order is closed before the reversing entry is saved.
PersistStepsCloseFirst == <<"close_work_order", "insert", "submit">>

\* The host calls that end return_and_close, in program order: se.insert(),
\* se.submit(), close_work_order(work_order, "Closed").
PersistSteps == <<"insert", "submit", "close_work_order">>

\* The calls made when the host fails the call named by host ("ok": none
\* fails): an exception leaves the function at the failing call.
RECURSIVE StepsRun(_, _)
StepsRun(steps, host) ==
    IF steps = <<>> THEN <<>>
    ELSE IF Head(steps) = host THEN <<Head(steps)>>
    ELSE <<Head(steps)>> \o StepsRun(Tail(steps), host)

\* The native calls among the calls made.
NativeCallsIn(run) ==
    [i \in 1..Len(SelectSeq(run, LAMBDA st : st = "close_work_order")) |->
        NativeCall("close_work_order", "Closed")]

ReturnThenClose(excess_items, obs, pick, host) ==
    LET R == already_returned(ledger, wo.wip_warehouse)
        built == BuildRows(excess_items, obs, R, wo, pick)
        se == [name |-> Len(stock_entries) + 1, is_return |-> 1,
               work_order |-> wo.name, from_warehouse |-> wo.wip_warehouse,
               items |-> built.rows, docstatus |-> 1]
        run == StepsRun(PersistSteps, host)
    IN  IF built.thrown
        THEN /\ last' = ReturnRecord("error", "no_warehouse", <<>>, <<>>, NoResult, obs)
             /\ UNCHANGED <<wo, ledger, stock_entries>>
        ELSE IF host # "ok"
        THEN /\ last' = ReturnRecord("error",
                            IF host = "insert" THEN "insert_failed" ELSE "submit_failed",
                            NativeCallsIn(run), run, NoResult, obs)
             /\ UNCHANGED <<wo, ledger, stock_entries>>
        ELSE /\ stock_entries' = Append(stock_entries, se)
             /\ ledger' = PostRows(ledger, se.items)
             /\ wo' = [wo EXCEPT
                         !.required_items = HostRequiredItems(@, PostRows(ledger, se.items)),
                         !.status = update_status("Closed")]
             /\ last' = ReturnRecord("ok", "", NativeCallsIn(run), run,
                            [status |-> "returned_and_closed",
                             stock_entry |-> se.name,
                             total_returned_qty |-> SumExcess(excess_items),
                             items_count |-> Len(excess_items)],
                            obs)

return_and_close(obs, pick, host) ==
    /\ IF _get_excess_items(wo) = <<>>
       THEN CloseDirectly
       ELSE /\ Len(stock_entries) < MaxDocs
            /\ ReturnThenClose(_get_excess_items(wo), obs, pick, host)
    /\ UNCHANGED <<doc, accounts, hook>>

ItemCodes == {Items[i] : i \in 1..Len(Items)}

(***************************************************************************)
(* Initial states of the Work Order part.                                  *)
(***************************************************************************)
RequiredItem(ic, consumed, sw) ==
    [item_code |-> ic, transferred_qty |-> {}, consumed_qty |-> consumed,
     returned_qty |-> {}, source_warehouse |-> sw]

NoCall == CallRecord("none", Null, FALSE, "none", "", <<>>, <<>>, NoResult,
                     [wo |-> Null, ledger |-> EmptyBag, stock_entries |-> <<>>])

NoDoc == [doctype |-> Null]
NoHook == [op |-> "none"]

InitWO ==
    /\ \E L \in SUBSET LineUniverse, ca \in {{}, {100}}, sww \in {Null, "S1"} :
        /\ Cardinality(L) <= MaxLines
        /\ ledger = SetToBag(L)
        /\ wo = [name |-> "WO-1", status |-> "In Process",
                 source_warehouse |-> sww, wip_warehouse |-> WIP,
                 required_items |->
                     HostRequiredItems(<<RequiredItem("A", ca, "S1"),
                                         RequiredItem("B", {}, Null)>>, SetToBag(L))]
    /\ stock_entries = <<>>
    /\ last = NoCall
    /\ doc = NoDoc
    /\ accounts = {}
    /\ hook = NoHook

NextWO ==
    \/ \E status \in Statuses : close_work_order_with_rm_check(status)
    \/ \E status \in Statuses : stop_unstop_with_rm_check(status)
    \/ \E obs \in original_batches(ledger, wo.wip_warehouse),
          pick \in [ItemCodes -> {Null, "S1", "S2"}],
          host \in {"ok", "insert", "submit"} :
        /\ \A ic \in ItemCodes : pick[ic] \in FallbackResults(ledger, ic, wo.wip_warehouse)
        /\ return_and_close(obs, pick, host)

SpecWO == InitWO /\ [][NextWO]_vars

(***************************************************************************)
(* interunit_transfer.py                                                   *)
(***************************************************************************)
INTERUNIT_ACCOUNT_NUMBER == "14120"
SALES_ACCOUNT_NUMBER == "31101"
COGS_ACCOUNT_NUMBER == "41103"

Account(name, number, company) ==
    [name |-> name, account_number |-> number, company |-> company]

\* Rows the Account table may hold; the host keeps an account number unique
\* within a company.
AccountUniverse ==
    {Account("14120 - X", "14120", "X"), Account("14120 - Y", "14120", "Y"),
     Account("31101 - X", "31101", "X"), Account("41103 - X", "41103", "X")}

\* Customer.custom_is_bwm_internal_entity as frappe.db.get_value returns it:
\* {1}, {0}, or {} when the field is unset or there is no such customer.
CustomerFlag(customer) ==
    IF customer = "C-INT" THEN {1} ELSE IF customer = "C-EXT" THEN {0} ELSE {}

\* Mutant: the company filter is dropped.
AccountOfAnyCompany(account_number, company) ==
    IF \E a \in accounts : a.account_number = account_number
    THEN (CHOOSE a \in accounts : a.account_number = account_number).name
    ELSE Null

_get_account_by_number(account_number, company) ==
    IF \E a \in accounts : a.account_number = account_number /\ a.company = company
    THEN (CHOOSE a \in accounts :
              a.account_number = account_number /\ a.company = company).name
    ELSE Null

\* _get_interunit_account throws when this holds.
InterunitMissing(company) ==
    Falsy(_get_account_by_number(INTERUNIT_ACCOUNT_NUMBER, company))

\* Mutant: any flag other than 0 counts as internal.
IsInternalUnlessZero(customer) ==
    IF Falsy(customer) THEN FALSE ELSE CustomerFlag(customer) # {0}

_is_bwm_internal_customer(customer) ==
    IF Falsy(customer) THEN FALSE ELSE CustomerFlag(customer) = {1}

\* Mutant: the original account is stored after the override.
SIOverrideStoresAfter(item, interunit_account) ==
    [item EXCEPT !.custom_original_income_account = interunit_account,
                 !.income_account = interunit_account]

\* The loop body of si_before_submit.
SIOverride(item, interunit_account) ==
    [item EXCEPT !.custom_original_income_account = OrText(item.income_account, ""),
                 !.income_account = interunit_account]

\* The loop body of dn_before_submit.
DNOverride(item, interunit_account) ==
    [item EXCEPT !.custom_original_expense_account = OrText(item.expense_account, ""),
                 !.expense_account = interunit_account]

HookRecord(op, outcome, error) ==
    [op |-> op, outcome |-> outcome, error |-> error, pre |-> doc]

si_before_submit ==
    /\ hook.op = "none"
    /\ doc.doctype = "Sales Invoice"
    /\ IF ~_is_bwm_internal_customer(doc.customer)
       THEN /\ hook' = HookRecord("si_before_submit", "ok", "")
            /\ UNCHANGED doc
       ELSE IF InterunitMissing(doc.company)
       THEN /\ hook' = HookRecord("si_before_submit", "error", "interunit_missing")
            /\ UNCHANGED doc
       ELSE LET interunit_account ==
                    _get_account_by_number(INTERUNIT_ACCOUNT_NUMBER, doc.company)
                items == [i \in 1..Len(doc.items) |->
                              SIOverride(doc.items[i], interunit_account)]
                sales_account == _get_account_by_number(SALES_ACCOUNT_NUMBER, doc.company)
            IN  /\ doc' = [doc EXCEPT !.items = items, !.custom_is_branch_transfer = 1]
                /\ hook' =
                     IF /\ ~Falsy(sales_account)
                        /\ \E i \in 1..Len(items) : items[i].income_account = sales_account
                     THEN HookRecord("si_before_submit", "error", "override_failed")
                     ELSE HookRecord("si_before_submit", "ok", "")
    /\ UNCHANGED <<wo, ledger, stock_entries, last, accounts>>

dn_before_submit ==
    /\ hook.op = "none"
    /\ doc.doctype = "Delivery Note"
    /\ IF ~_is_bwm_internal_customer(doc.customer)
       THEN /\ hook' = HookRecord("dn_before_submit", "ok", "")
            /\ UNCHANGED doc
       ELSE IF InterunitMissing(doc.company)
       THEN /\ hook' = HookRecord("dn_before_submit", "error", "interunit_missing")
            /\ UNCHANGED doc
       ELSE LET interunit_account ==
                    _get_account_by_number(INTERUNIT_ACCOUNT_NUMBER, doc.company)
                items == [i \in 1..Len(doc.items) |->
                              DNOverride(doc.items[i], interunit_account)]
                cogs_account == _get_account_by_number(COGS_ACCOUNT_NUMBER, doc.company)
            IN  /\ doc' = [doc EXCEPT !.items = items, !.custom_is_branch_transfer = 1]
                /\ hook' =
                     IF /\ ~Falsy(cogs_account)
                        /\ \E i \in 1..Len(items) : items[i].expense_account = cogs_account
                     THEN HookRecord("dn_before_submit", "error", "override_failed")
                     ELSE HookRecord("dn_before_submit", "ok", "")
    /\ UNCHANGED <<wo, ledger, stock_entries, last, accounts>>

(***************************************************************************)
(* Initial states of the interunit part: a draft document about to be      *)
(* submitted.  The custom fields are still unset.                          *)
(***************************************************************************)
DocItem(income, expense) ==
    [income_account |-> income, expense_account |-> expense,
     custom_original_income_account |-> Null,
     custom_original_expense_account |-> Null]

DocItems == {DocItem(income, expense) :
                income \in {Null, "31101 - X", "40000 - X"},
                expense \in {Null, "41103 - X"}}

InitGL ==
    /\ \E doctype \in {"Sales Invoice", "Delivery Note"},
          customer \in {Null, "", "C-INT", "C-EXT", "C-UNSET"},
          company \in {"X", "Y"},
          n \in 1..MaxItems :
        \E items \in [1..n -> DocItems] :
            doc = [doctype |-> doctype, customer |-> customer, company |-> company,
                   items |-> items, custom_is_branch_transfer |-> 0]
    /\ accounts \in SUBSET AccountUniverse
    /\ hook = NoHook
    /\ wo = Null
    /\ ledger = EmptyBag
    /\ stock_entries = <<>>
    /\ last = NoCall

NextGL ==
    \/ si_before_submit
    \/ dn_before_submit

SpecGL == InitGL /\ [][NextGL]_vars

(***************************************************************************)
(* Properties of the Work Order guard and of return_and_close.             *)
(***************************************************************************)
IsGuardCall ==
    last.op \in {"close_work_order_with_rm_check", "stop_unstop_with_rm_check"}

NativeOf(op) ==
    IF op = "close_work_order_with_rm_check" THEN "close_work_order" ELSE "stop_unstop"

\* transferred - consumed - returned of a required item, missing values as 0.
RawExcess(item) ==
    Or0(item.transferred_qty) - Or0(item.consumed_qty) - Or0(item.returned_qty)

\* Some required item of w has round(transferred - consumed - returned, 3) > 0.01.
HasExcessItem(w) ==
    \E i \in 1..Len(w.required_items) : Round3(RawExcess(w.required_items[i])) > Tolerance

\* The call asked to close through the close entry point, or to stop through
\* the stop entry point.
AsksCloseOrStop ==
    \/ last.op = "close_work_order_with_rm_check" /\ last.status = "Closed"
    \/ last.op = "stop_unstop_with_rm_check" /\ last.status = "Stopped"

\* C1: on a work order with an item of excess > 0.01, Close through
\* close_work_order_with_rm_check and Stop through stop_unstop_with_rm_check
\* are rejected with an error, the native operation is not invoked and the
\* status is left as it was.
C1_ExcessBlocksCloseAndStop ==
    (AsksCloseOrStop /\ HasExcessItem(last.pre.wo))
        => /\ last.outcome = "error"
           /\ last.native = <<>>
           /\ wo = last.pre.wo

C1_Witness ==
    /\ last.op = "stop_unstop_with_rm_check"
    /\ last.status = "Stopped"
    /\ HasExcessItem(last.pre.wo)
    /\ last.outcome = "error"
    /\ last.pre.wo.status = "In Process"

C3_NoBypassOnEitherEntryPoint ==
    (IsGuardCall /\ HasExcessItem(last.pre.wo))
        => /\ last.status \in {"Closed", "Stopped"}
                  => last.checked /\ last.outcome = "error"
           /\ wo.status \in {"Closed", "Stopped"} => wo.status = last.pre.wo.status

\* The reversing Stock Entry of the last call.
LastEntry == stock_entries[last.result.stock_entry]

Returned == last.op = "return_and_close" /\ last.result.status = "returned_and_closed"

RECURSIVE SumRows(_)
SumRows(rows) == IF rows = <<>> THEN 0 ELSE Head(rows).qty + SumRows(Tail(rows))

RowsOf(ic) == SelectSeq(LastEntry.items, LAMBDA r : r.item_code = ic)

\* Issued to WIP minus already returned from WIP, of one batch of one item.
BatchAvailable(B, wip, ic, bn) ==
    SumQty(B, {l \in BagToSet(B) : /\ l.is_return = 0 /\ l.t_warehouse = wip
                                    /\ l.item_code = ic /\ l.batch_no = bn})
    - SumQty(B, {l \in BagToSet(B) : /\ l.is_return = 1 /\ l.s_warehouse = wip
                                      /\ l.item_code = ic /\ l.batch_no = bn})

\* C4 (second half): no row allocated to a batch exceeds what the batch has
\* available.
C4_WithinBatch ==
    Returned =>
        \A k \in 1..Len(LastEntry.items) :
            LastEntry.items[k].batch_no # Null =>
                LastEntry.items[k].qty <=
                    BatchAvailable(last.pre.ledger, last.pre.wo.wip_warehouse,
                                   LastEntry.items[k].item_code,
                                   LastEntry.items[k].batch_no)

\* C4 (first half): per excess item the rows add up to the item's excess.
C4_SumIsExcess ==
    Returned =>
        \A i \in 1..Len(last.pre.wo.required_items) :
            LET item == last.pre.wo.required_items[i]
            IN  Round3(RawExcess(item)) > Tolerance
                    => SumRows(RowsOf(item.item_code)) = Round3(RawExcess(item))

\* C4: return_and_close on a work order with excess produces one reversing
\* Stock Entry whose rows add up, per excess item, to the item's excess and in
\* which no row allocated to a batch exceeds the batch's available quantity.
C4_AllocatesAllExcess ==
    Returned =>
        /\ Len(stock_entries) = Len(last.pre.stock_entries) + 1
        /\ last.result.stock_entry = Len(stock_entries)
        /\ C4_SumIsExcess
        /\ C4_WithinBatch

\* C5: return_and_close on a work order with no item of excess > 0.01 closes
\* it through the native close operation with status "Closed", creates,
\* inserts and submits no Stock Entry and returns status "closed".
C5_CleanClosesDirectly ==
    (last.op = "return_and_close" /\ ~HasExcessItem(last.pre.wo))
        => /\ last.outcome = "ok"
           /\ last.native = <<[fn |-> "close_work_order",
                               work_order |-> last.pre.wo.name, status |-> "Closed"]>>
           /\ wo.status = "Closed"
           /\ last.steps = <<"close_work_order">>
           /\ stock_entries = last.pre.stock_entries
           /\ ledger = last.pre.ledger
           /\ last.result.status = "closed"
           /\ last.result.status # "returned_and_closed"

C5_Witness ==
    /\ last.op = "return_and_close"
    /\ ~HasExcessItem(last.pre.wo)
    /\ \E i \in 1..Len(last.pre.wo.required_items) :
           RawExcess(last.pre.wo.required_items[i]) > Tolerance
    /\ last.pre.wo.status = "In Process"
    /\ wo.status = "Closed"
    /\ last.result.status = "closed"

\* The batches of item ic that the last call could allocate from, in the
\* order the lineage query returned them.
LineageOf(ic) ==
    batch_map_get(last.lineage, already_returned(last.pre.ledger, last.pre.wo.wip_warehouse), ic)

\* An excess item has no target warehouse: none on the item, none on the work
\* order, and no original transfer of it out of a warehouse other than WIP.
Unresolvable(w, B, item) ==
    /\ Falsy(item.source_warehouse)
    /\ Falsy(w.source_warehouse)
    /\ ~\E l \in BagToSet(B) :
           /\ l.is_return = 0
           /\ l.item_code = item.item_code
           /\ ~Falsy(l.s_warehouse)
           /\ l.s_warehouse # w.wip_warehouse

\* Some excess item without batch lineage has no resolvable target warehouse.
HasUnresolvableItem ==
    \E i \in 1..Len(last.pre.wo.required_items) :
        LET item == last.pre.wo.required_items[i]
        IN  /\ Round3(RawExcess(item)) > Tolerance
            /\ LineageOf(item.item_code) = <<>>
            /\ Unresolvable(last.pre.wo, last.pre.ledger, item)

\* C9: if an excess item without batch lineage has no resolvable target
\* warehouse, return_and_close raises; no reversing Stock Entry has been
\* inserted or submitted and the work order has not been closed, also when
\* earlier excess items were fully allocated.
C9_UnresolvableWarehouseAborts ==
    (last.op = "return_and_close" /\ HasUnresolvableItem)
        => /\ last.outcome = "error"
           /\ last.error = "no_warehouse"
           /\ last.steps = <<>>
           /\ last.native = <<>>
           /\ stock_entries = last.pre.stock_entries
           /\ ledger = last.pre.ledger
           /\ wo = last.pre.wo

C9_Witness ==
    /\ last.op = "return_and_close"
    /\ HasUnresolvableItem
    /\ last.error = "no_warehouse"
    /\ Round3(RawExcess(last.pre.wo.required_items[1])) > Tolerance
    /\ LineageOf(last.pre.wo.required_items[1].item_code) # <<>>
    /\ wo.status = "In Process"

\* What is left of item's excess before the k-th of its rows.
Remaining(item, rows, k) == Round3(RawExcess(item)) - SumRows(SubSeq(rows, 1, k - 1))

HookRan == hook.op \in {"si_before_submit", "dn_before_submit"}

\* The account field the hook overrides, and its shadow field.
AccountField(d, item) ==
    IF d.doctype = "Sales Invoice" THEN item.income_account ELSE item.expense_account

ShadowField(d, item) ==
    IF d.doctype = "Sales Invoice" THEN item.custom_original_income_account
    ELSE item.custom_original_expense_account

\* The customer of the document is flagged internal.
FlaggedInternal(d) == d.customer \in {"C-INT"}

\* The 14120 account of company, if the Account table has one.
Interunit(company) ==
    {a \in accounts : a.account_number = "14120" /\ a.company = company}

OverrideCase == HookRan /\ FlaggedInternal(hook.pre) /\ Interunit(hook.pre.company) # {}

\* The hook passed, every item's account is the company's 14120 account and
\* the document is marked a branch transfer.
Overridden ==
    /\ hook.outcome = "ok"
    /\ doc.custom_is_branch_transfer = 1
    /\ Len(doc.items) = Len(hook.pre.items)
    /\ \A i \in 1..Len(doc.items) :
           \E a \in Interunit(hook.pre.company) : AccountField(doc, doc.items[i]) = a.name

\* C6 as stated: internal customer and 14120 present: the hook passes, every
\* item's account is the 14120 account, every shadow field holds the value the
\* account field had before the override, and the branch-transfer flag is 1.
C6_ShadowHoldsPriorValue ==
    OverrideCase
        => /\ Overridden
           /\ \A i \in 1..Len(doc.items) :
                  ShadowField(doc, doc.items[i]) = AccountField(hook.pre, hook.pre.items[i])

\* C6 amended: as above, the shadow field holding the value the account field
\* had before the override when it had one, and "" when it was unset (None).
C6_ShadowHoldsPriorValueOrEmpty ==
    OverrideCase
        => /\ Overridden
           /\ \A i \in 1..Len(doc.items) :
                  ShadowField(doc, doc.items[i]) =
                      IF AccountField(hook.pre, hook.pre.items[i]) = Null THEN ""
                      ELSE AccountField(hook.pre, hook.pre.items[i])

C6_Witness ==
    /\ OverrideCase
    /\ hook.op = "si_before_submit"
    /\ Len(doc.items) = 2
    /\ hook.pre.items[1].income_account = "31101 - X"
    /\ hook.pre.items[2].income_account = Null
    /\ doc.items[1].income_account = "14120 - X"
    /\ doc.items[1].custom_original_income_account = "31101 - X"
    /\ Account("31101 - X", "31101", "X") \in accounts

\* C7: with no customer, or a customer whose flag is 0 or unset, both hooks
\* leave the document and every item unchanged and raise nothing, whether or
\* not account 14120 exists.
C7_NotInternalIsNoOp ==
    (HookRan /\ ~FlaggedInternal(hook.pre))
        => /\ hook.outcome = "ok"
           /\ doc = hook.pre

C7_Witness ==
    /\ hook.op = "dn_before_submit"
    /\ hook.pre.customer = "C-UNSET"
    /\ Interunit(hook.pre.company) # {}
    /\ hook.outcome = "ok"
    /\ \E i \in 1..Len(doc.items) : doc.items[i].expense_account = "41103 - X"

\* C8: internal customer and no 14120 account for the document's company: both
\* hooks raise, and no account field, shadow field or branch-transfer flag has
\* been modified.
C8_MissingInterunitAborts ==
    (HookRan /\ FlaggedInternal(hook.pre) /\ Interunit(hook.pre.company) = {})
        => /\ hook.outcome = "error"
           /\ hook.error = "interunit_missing"
           /\ doc = hook.pre

C8_Witness ==
    /\ hook.op = "si_before_submit"
    /\ FlaggedInternal(hook.pre)
    /\ hook.pre.company = "Y"
    /\ Account("14120 - X", "14120", "X") \in accounts
    /\ Interunit("Y") = {}
    /\ hook.outcome = "error"

(***************************************************************************)
(* Order of the host calls that end return_and_close.                      *)
(***************************************************************************)
IsPrefix(p, q) == Len(p) <= Len(q) /\ SubSeq(q, 1, Len(p)) = p

\* C11: in return_and_close on a work order with excess the reversing Stock
\* Entry is inserted, then submitted, then the work order is closed; the
\* native close is invoked only after insert and submit went through, never
\* when one of them fails; and whenever the result status is
\* "returned_and_closed" the returned stock_entry names a submitted reversing
\* Stock Entry and the work order is Closed.
C11_InsertSubmitThenClose ==
    (last.op = "return_and_close" /\ HasExcessItem(last.pre.wo))
        => /\ IsPrefix(last.steps, <<"insert", "submit", "close_work_order">>)
           /\ last.native # <<>>
                  => /\ last.steps = <<"insert", "submit", "close_work_order">>
                     /\ last.outcome = "ok"
                     /\ Len(stock_entries) = Len(last.pre.stock_entries) + 1
           /\ last.error \in {"insert_failed", "submit_failed"}
                  => /\ last.outcome = "error"
                     /\ last.native = <<>>
                     /\ wo = last.pre.wo
                     /\ stock_entries = last.pre.stock_entries
           /\ last.result.status = "returned_and_closed"
                  => /\ last.steps = <<"insert", "submit", "close_work_order">>
                     /\ last.result.stock_entry \in 1..Len(stock_entries)
                     /\ LastEntry.name = last.result.stock_entry
                     /\ LastEntry.is_return = 1
                     /\ LastEntry.docstatus = 1
                     /\ LastEntry.work_order = last.pre.wo.name
                     /\ wo.status = "Closed"

C11_Witness ==
    /\ last.op = "return_and_close"
    /\ HasExcessItem(last.pre.wo)
    /\ last.error = "submit_failed"
    /\ last.steps = <<"insert", "submit">>
    /\ wo.status = "In Process"
====
